---- MODULE Spec2Model ----
(***************************************************************************)
(* State-machine model of the tutorial HTTP servers of the repository.     *)
(* Every server file is a standalone process; `variant` names the one that *)
(* is running.  A request handler that contains no await is one action; a  *)
(* handler that hands a callback to connection.query is two: the           *)
(* synchronous part, and the completion of the query with its callback.    *)
(* Strings are written in ASCII: the accented letters of the source's      *)
(* names and messages appear without their accents.                        *)
(***************************************************************************)
EXTENDS Integers, Sequences, FiniteSets, TLC

VARIABLES
    variant,        \* which server file is running
    req,            \* the request answered last
    reply,          \* the response sent for it
    usuariosMock,   \* fastify/04, fastify/05, src/04: the mock array
    users,          \* src/03: the in-memory users array
    trace,          \* Express: what validateBody did with the request that entered last;
                    \* src/03: the error handed to the error handler
    usersTable,     \* MySQL: the rows of table users, in id order
    tasksTable,     \* MySQL: the rows of table tasks, in id order
    nextId,         \* MySQL: the AUTO_INCREMENT counters of the two tables
    uniqueEmailKey, \* MySQL: whether users.email carries a UNIQUE key (no DDL in the repository)
    connection,     \* mysql2: the state of the one shared connection
    pending,        \* mysql2: the query handed to connection.query and not yet completed;
                    \* in-memory servers: the POST requests received and not yet handled
    process,        \* the Node process: "running" or "exited"
    outcome,        \* what the connection.query callback of `req` did;
                    \* in-memory servers: the answers given to the concurrent POST requests
    server,         \* the HTTP server: "listening", "closing", "closed" or "close failed"
    signal,         \* the signal the process received: "none", "SIGTERM" or "SIGINT"
    exitCode        \* the exit code of the process once it has exited, as <<code>>

\* what the Express handlers over MySQL own
dbVars == <<usersTable, tasksTable, nextId, uniqueEmailKey, connection, pending, process, outcome>>

\* the HTTP server and the signal handlers
procVars == <<server, signal, exitCode>>

vars == <<variant, req, reply, usuariosMock, users, trace, dbVars, procVars>>

\* what the in-memory Fastify handlers never touch
expressVars == <<trace, dbVars, procVars>>
\* what the Express and Zod-only variants never touch
memVars == <<usuariosMock, users>>

-----------------------------------------------------------------------------
(* Bounds of the model.                                                    *)

\* ids 10 .. 10 + MaxNovos are requested besides id 1 (fastify/04, /05, src/04)
MaxNovos == 1
\* src/03: POST /users is taken while the array holds fewer users than this
MaxUsers == 2
\* MySQL: an INSERT is requested while the table's AUTO_INCREMENT is at most this
MaxRows == 2

-----------------------------------------------------------------------------
(* Values shared by the variants.                                          *)

NoReq == [method |-> "NONE"]
NoReply == [status |-> 0, body |-> [text |-> ""]]
\* No middleware was entered and no error was handed to an error handler.
NoTrace == [entered |-> FALSE]

\* A response: the status set by reply.status()/res.status() and the body sent.
Response(status, body) == [status |-> status, body |-> body]

\* A template string with one interpolated value, `... ${arg} ...`.
Fmt(fmt, arg) == [fmt |-> fmt, arg |-> arg]

RECURSIVE ParseIntFrom(_, _)
ParseIntFrom(digits, acc) ==
    IF digits = <<>> THEN acc
    ELSE ParseIntFrom(Tail(digits), 10 * acc + Head(digits))

\* parseInt(id) of a path parameter that matched '^[0-9]+$', given as its digits
ParseInt(digits) == ParseIntFrom(digits, 0)

\* findIndex returning the last index of the array when nothing matches.
FindIndexUltimo(arr, id) ==
    IF \E i \in 1..Len(arr) : arr[i].id = id
    THEN CHOOSE i \in 1..Len(arr) : arr[i].id = id /\ \A j \in 1..(i - 1) : arr[j].id # id
    ELSE Len(arr)

\* arr.findIndex(u => u.id === id): the first index whose element has the id,
\* 0 for -1
FindIndex(arr, id) ==
    IF \E i \in 1..Len(arr) : arr[i].id = id
    THEN CHOOSE i \in 1..Len(arr) : arr[i].id = id /\ \A j \in 1..(i - 1) : arr[j].id # id
    ELSE 0

\* splice that removes the last element whatever the index.
SpliceUltimo(arr, index) == SubSeq(arr, 1, Len(arr) - 1)

\* Array.prototype.splice(index, 1)
Splice(arr, index) ==
    [i \in 1..(Len(arr) - 1) |-> IF i < index THEN arr[i] ELSE arr[i + 1]]

\* Array.prototype.push
Push(arr, x) == Append(arr, x)

\* JavaScript's undefined and null, and SQL's NULL
undefined == "undefined"
null == "null"

\* `const { k } = body`: the value of key k, undefined when the body has none
Get(body, k) == IF k \in DOMAIN body THEN body[k] ELSE undefined

\* The value passed on as it is, without `|| null`.
OrNullSemNull(v) == v

\* `v || null` for a string v that is not empty when present
OrNull(v) == IF v = undefined THEN null ELSE v

-----------------------------------------------------------------------------
(* fastify/04 src/server.ts and fastify/05 src/routes.ts: the same CRUD    *)
(* handlers over the seeded usuariosMock array.                            *)

FastifyMem == {"fastify05"}

usuariosMockSeed ==
    << [id |-> 1,  nome |-> "Joao Silva",       email |-> "joao@teste.com"],
       [id |-> 2,  nome |-> "Maria Santos",     email |-> "maria@teste.com"],
       [id |-> 3,  nome |-> "Pedro Oliveira",   email |-> "pedro@exemplo.com"],
       [id |-> 4,  nome |-> "Ana Costa",        email |-> "ana@exemplo.com"],
       [id |-> 5,  nome |-> "Carlos Eduardo",   email |-> "carlos@teste.com"],
       [id |-> 6,  nome |-> "Fernanda Lima",    email |-> "fernanda@exemplo.com"],
       [id |-> 7,  nome |-> "Roberto Alves",    email |-> "roberto@teste.com"],
       [id |-> 8,  nome |-> "Juliana Ferreira", email |-> "juliana@exemplo.com"],
       [id |-> 9,  nome |-> "Marcos Pereira",   email |-> "marcos@teste.com"],
       [id |-> 10, nome |-> "Carla Rodrigues",  email |-> "carla@exemplo.com"] >>

\* Request inputs that pass the routes' JSON schemas: nome of at least 2
\* characters, email in email format, id a string of digits.
Nomes == {"Ana Lima", "Rui Paz"}
Emails == {"joao@teste.com", "novo@teste.com"}
IdParams == {<<1>>, <<0, 1>>} \cup {<<1, d>> : d \in 0..MaxNovos}

\* criarUsuarioSchema: nome and email required
CriarBodies == {[nome |-> n, email |-> e] : n \in Nomes, e \in Emails}

\* atualizarUsuarioSchema: nome and email optional
AtualizarBodies ==
    {[x \in {} |-> ""]}
      \cup {[nome |-> n] : n \in Nomes}
      \cup {[email |-> e] : e \in Emails}
      \cup {[nome |-> n, email |-> e] : n \in Nomes, e \in Emails}

RECURSIVE MaxOf(_)
MaxOf(S) ==
    LET x == CHOOSE y \in S : TRUE
    IN IF S = {x} THEN x
       ELSE LET m == MaxOf(S \ {x}) IN IF x > m THEN x ELSE m

\* The next id taken from the length of the array.
getNextIdPorTamanho == Len(usuariosMock) + 1

\* The id after that of the first user, not after the greatest.
getNextIdDoPrimeiro == IF usuariosMock = <<>> THEN 1 ELSE usuariosMock[1].id + 1

\* Math.max(...usuariosMock.map(u => u.id)) + 1, or 1 for the empty array
getNextId ==
    IF Len(usuariosMock) > 0
    THEN MaxOf({usuariosMock[i].id : i \in 1..Len(usuariosMock)}) + 1
    ELSE 1

\* A scan that compares only the first element of the array.
emailExisteSoPrimeiro(email) ==
    usuariosMock # <<>> /\ usuariosMock[1].email = email

\* usuariosMock.find(u => u.email === email), as a truth value
emailExiste(email) ==
    \E i \in 1..Len(usuariosMock) : usuariosMock[i].email = email

\* The PUT handler with its scan for the new email left out.
PutEmailEmUsoSemBusca(updates, usuarioIndex) == FALSE

\* PUT: `updates.email && updates.email !== usuariosMock[usuarioIndex].email`
\* followed by the scan for the new email
PutEmailEmUso(updates, usuarioIndex) ==
    /\ "email" \in DOMAIN updates
    /\ updates.email # usuariosMock[usuarioIndex].email
    /\ emailExiste(updates.email)

\* The PUT handler keeping the stored user as it was.
usuarioAtualizadoSemUpdates(usuario, updates) == usuario

\* { ...usuariosMock[usuarioIndex], ...(updates.nome && {nome}), ...(updates.email && {email}) }
usuarioAtualizado(usuario, updates) ==
    [id |-> usuario.id,
     nome |-> IF "nome" \in DOMAIN updates THEN updates.nome ELSE usuario.nome,
     email |-> IF "email" \in DOMAIN updates THEN updates.email ELSE usuario.email]

NotFoundUsuario(userId) ==
    Response(404, [error |-> "Not Found",
                   message |-> Fmt("Usuario com ID ${userId} nao encontrado", userId)])

EmailEmUso ==
    Response(400, [error |-> "Bad Request", message |-> "Email ja esta em uso"])

\* The handler of POST /usuarios.  It is an async function without any await:
\* the scan for the email and the push run in one turn of the event loop.
PostUsuariosHandler(body) ==
    /\ req' = [method |-> "POST", route |-> "/usuarios", body |-> body]
    /\ IF emailExiste(body.email)
       THEN /\ reply' = EmailEmUso
            /\ UNCHANGED usuariosMock
       ELSE LET novoUsuario == [id |-> getNextId, nome |-> body.nome, email |-> body.email]
            IN /\ usuariosMock' = Push(usuariosMock, novoUsuario)
               /\ reply' = Response(201, novoUsuario)

\* POST /usuarios
PostUsuarios(body) ==
    /\ variant \in FastifyMem
    /\ PostUsuariosHandler(body)
    /\ UNCHANGED <<variant, users, expressVars>>

\* GET /usuarios/:id (the same handler in src/04 server-minimal.ts)
GetUsuarioById(id) ==
    /\ variant \in FastifyMem \cup {"src04"}
    /\ req' = [method |-> "GET", route |-> "/usuarios/:id", id |-> id]
    /\ LET userId == ParseInt(id)
           usuarioIndex == FindIndex(usuariosMock, userId)
       IN reply' = IF usuarioIndex = 0
                   THEN NotFoundUsuario(userId)
                   ELSE Response(200, usuariosMock[usuarioIndex])
    /\ UNCHANGED <<variant, memVars, expressVars>>

\* PUT /usuarios/:id
PutUsuario(id, updates) ==
    /\ variant \in FastifyMem
    /\ req' = [method |-> "PUT", route |-> "/usuarios/:id", id |-> id, body |-> updates]
    /\ LET userId == ParseInt(id)
           usuarioIndex == FindIndex(usuariosMock, userId)
       IN IF usuarioIndex = 0
          THEN /\ reply' = NotFoundUsuario(userId)
               /\ UNCHANGED usuariosMock
          ELSE IF PutEmailEmUso(updates, usuarioIndex)
          THEN /\ reply' = EmailEmUso
               /\ UNCHANGED usuariosMock
          ELSE LET atualizado == usuarioAtualizado(usuariosMock[usuarioIndex], updates)
               IN /\ usuariosMock' = [usuariosMock EXCEPT ![usuarioIndex] = atualizado]
                  /\ reply' = Response(200, atualizado)
    /\ UNCHANGED <<variant, users, expressVars>>

\* DELETE /usuarios/:id
DeleteUsuario(id) ==
    /\ variant \in FastifyMem
    /\ req' = [method |-> "DELETE", route |-> "/usuarios/:id", id |-> id]
    /\ LET userId == ParseInt(id)
           usuarioIndex == FindIndex(usuariosMock, userId)
       IN IF usuarioIndex = 0
          THEN /\ reply' = NotFoundUsuario(userId)
               /\ UNCHANGED usuariosMock
          ELSE /\ usuariosMock' = Splice(usuariosMock, usuarioIndex)
               /\ reply' = Response(200,
                    [message |-> Fmt("Usuario com ID ${userId} foi deletado com sucesso", userId),
                     id |-> userId])
    /\ UNCHANGED <<variant, users, expressVars>>

-----------------------------------------------------------------------------
(* src/04 src/server-minimal.ts: the stub variant.  GET /usuarios/:id is   *)
(* GetUsuarioById above; the other handlers never touch usuariosMock.      *)

usuariosMockMinimal ==
    << [id |-> 1, nome |-> "Joao Silva",   email |-> "joao@teste.com"],
       [id |-> 2, nome |-> "Maria Santos", email |-> "maria@teste.com"] >>

\* Math.floor(Math.random() * 1000) + 100: the two ends of its range
RandomIds == {100, 1099}

\* POST /usuarios
StubPostUsuarios(body, random) ==
    /\ variant = "src04"
    /\ req' = [method |-> "POST", route |-> "/usuarios", body |-> body]
    /\ reply' = Response(201, [id |-> random, nome |-> body.nome, email |-> body.email])
    /\ UNCHANGED <<variant, memVars, expressVars>>

\* PUT /usuarios/:id
StubPutUsuario(id, updates) ==
    /\ variant = "src04"
    /\ req' = [method |-> "PUT", route |-> "/usuarios/:id", id |-> id, body |-> updates]
    /\ reply' = Response(200,
         [id |-> ParseInt(id),
          nome |-> IF "nome" \in DOMAIN updates THEN updates.nome ELSE "Nome Atualizado",
          email |-> IF "email" \in DOMAIN updates THEN updates.email
                    ELSE "email@atualizado.com"])
    /\ UNCHANGED <<variant, memVars, expressVars>>

\* DELETE /usuarios/:id
StubDeleteUsuario(id) ==
    /\ variant = "src04"
    /\ req' = [method |-> "DELETE", route |-> "/usuarios/:id", id |-> id]
    /\ reply' = Response(200,
         [message |-> Fmt("Usuario com ID ${userId} foi deletado com sucesso", ParseInt(id)),
          id |-> ParseInt(id)])
    /\ UNCHANGED <<variant, memVars, expressVars>>

-----------------------------------------------------------------------------
(* src/03 src/server.ts: CRUD over the users array, ids from randomUUID(). *)

\* Values that pass userParamsSchema (a UUID); randomUUID() draws from them too.
UUIDs == {<<"uuid", i>> : i \in 1..MaxUsers}

\* Values that pass createUserBodySchema: name of at least 3 characters, an e-mail.
Names == {"Ana", "Rui"}
UserEmails == {"ana@x.com", "rui@x.com"}
\* new Date() at the time of the POST
Dates == {"2025-01-01T00:00:00.000Z"}

CreateUserBodies == {[name |-> n, email |-> e] : n \in Names, e \in UserEmails}

\* updateUserBodySchema: name and email optional; zod strips every other key
UpdateUserBodies ==
    {[x \in {} |-> ""]}
      \cup {[name |-> n] : n \in Names}
      \cup {[email |-> e] : e \in UserEmails}
      \cup {[name |-> n, email |-> e] : n \in Names, e \in UserEmails}

\* The POST handler with its scan left out.
emailInUseSemBusca(email) == FALSE

\* users.some(user => user.email === email)
emailInUse(email) == \E i \in 1..Len(users) : users[i].email = email

\* The PUT handler stamping the user with a new date.
updatedUserNovaData(user, body) ==
    [k \in DOMAIN user |-> IF k = "createdAt" THEN "new Date()"
                           ELSE IF k \in DOMAIN body THEN body[k] ELSE user[k]]

\* { ...users[userIndex], ...request.body }
updatedUser(user, body) ==
    [k \in DOMAIN user |-> IF k \in DOMAIN body THEN body[k] ELSE user[k]]

UserNotFound ==
    Response(404, [statusCode |-> 404, error |-> "Not Found",
                   message |-> "Usuario nao encontrado."])

EmailConflict ==
    Response(409, [statusCode |-> 409, error |-> "Conflict",
                   message |-> "Este e-mail ja esta em uso."])

\* The handler of POST /users, with the values randomUUID() and new Date()
\* give it.  It is an async function without any await: users.some and
\* users.push run in one turn of the event loop.
PostUsersHandler(body, uuid, now) ==
    /\ Len(users) < MaxUsers
    /\ \A i \in 1..Len(users) : users[i].id # uuid
    /\ req' = [method |-> "POST", route |-> "/users", body |-> body]
    /\ IF emailInUse(body.email)
       THEN /\ reply' = EmailConflict
            /\ UNCHANGED users
       ELSE LET newUser == [id |-> uuid, name |-> body.name, email |-> body.email,
                            createdAt |-> now]
            IN /\ users' = Push(users, newUser)
               /\ reply' = Response(201, newUser)

\* POST /users
PostUsers(body, uuid, now) ==
    /\ variant = "src03"
    /\ process = "running"
    /\ server = "listening"
    /\ PostUsersHandler(body, uuid, now)
    /\ trace' = NoTrace
    /\ UNCHANGED <<variant, usuariosMock, dbVars, procVars>>

\* GET /users/:id
GetUserById(id) ==
    /\ variant = "src03"
    /\ process = "running"
    /\ server = "listening"
    /\ req' = [method |-> "GET", route |-> "/users/:id", id |-> id]
    /\ LET userIndex == FindIndex(users, id)
       IN reply' = IF userIndex = 0 THEN UserNotFound
                   ELSE Response(200, users[userIndex])
    /\ trace' = NoTrace
    /\ UNCHANGED <<variant, memVars, dbVars, procVars>>

\* PUT /users/:id
PutUser(id, body) ==
    /\ variant = "src03"
    /\ process = "running"
    /\ server = "listening"
    /\ req' = [method |-> "PUT", route |-> "/users/:id", id |-> id, body |-> body]
    /\ LET userIndex == FindIndex(users, id)
       IN IF userIndex = 0
          THEN /\ reply' = UserNotFound
               /\ UNCHANGED users
          ELSE LET updated == updatedUser(users[userIndex], body)
               IN /\ users' = [users EXCEPT ![userIndex] = updated]
                  /\ reply' = Response(200, updated)
    /\ trace' = NoTrace
    /\ UNCHANGED <<variant, usuariosMock, dbVars, procVars>>

\* DELETE /users/:id
DeleteUser(id) ==
    /\ variant = "src03"
    /\ process = "running"
    /\ server = "listening"
    /\ req' = [method |-> "DELETE", route |-> "/users/:id", id |-> id]
    /\ LET userIndex == FindIndex(users, id)
       IN IF userIndex = 0
          THEN /\ reply' = UserNotFound
               /\ UNCHANGED users
          ELSE /\ users' = Splice(users, userIndex)
               /\ reply' = Response(204, <<>>)
    /\ trace' = NoTrace
    /\ UNCHANGED <<variant, usuariosMock, dbVars, procVars>>

-----------------------------------------------------------------------------
(* Zod: z.object(...).parse(body), for the checks the repository's schemas *)
(* use.  A body is a record of the keys it carries; a value always has the *)
(* JSON type its key's schema names, so an issue is a missing key or a     *)
(* failed check.                                                           *)

\* z.string().email(): the e-mail test, tabulated over the strings requests carry
WellFormedEmails == {"ana@x.com", "rui@x.com"}
IsEmail(s) == s \in WellFormedEmails

ZField(key) ==
    [key |-> key, optional |-> FALSE, hasDefault |-> FALSE, check |-> "none",
     min |-> 0, message |-> ""]
\* z.string().min(n, message)
ZMin(key, n, message) == [ZField(key) EXCEPT !.check = "min", !.min = n, !.message = message]
\* z.string().email(message)
ZEmail(key, message) == [ZField(key) EXCEPT !.check = "email", !.message = message]
\* z.number().positive(message)
ZPositive(key, message) == [ZField(key) EXCEPT !.check = "positive", !.message = message]
\* .optional()
ZOptional(field) == [field EXCEPT !.optional = TRUE]
\* .optional().default(true)
ZDefaultTrue(field) == [field EXCEPT !.optional = TRUE, !.hasDefault = TRUE]

\* the issue a present value raises, as a sequence of at most one issue
ZCheck(field, v) ==
    LET failed == CASE field.check = "min" -> Len(v) < field.min
                    [] field.check = "email" -> ~IsEmail(v)
                    [] field.check = "positive" -> v <= 0
                    [] OTHER -> FALSE
    IN IF failed THEN << [path |-> field.key, message |-> field.message] >> ELSE <<>>

RECURSIVE ZIssues(_, _)
ZIssues(schema, body) ==
    IF schema = <<>> THEN <<>>
    ELSE LET field == Head(schema)
             here == IF field.key \in DOMAIN body THEN ZCheck(field, body[field.key])
                     ELSE IF field.optional THEN <<>>
                     ELSE << [path |-> field.key, message |-> "Required"] >>
         IN here \o ZIssues(Tail(schema), body)

\* schema.safeParse(body): unknown keys are stripped, a default fills a missing key
ZodParse(schema, body) ==
    LET issues == ZIssues(schema, body)
        keys == {schema[i].key : i \in 1..Len(schema)}
        kept == {k \in keys : k \in DOMAIN body
                    \/ \E i \in 1..Len(schema) : schema[i].key = k /\ schema[i].hasDefault}
    IN [success |-> issues = <<>>,
        issues |-> issues,
        data |-> [k \in kept |-> IF k \in DOMAIN body THEN body[k] ELSE TRUE]]

\* error.errors.map(e => `${e.path.join('.')}: ${e.message}`).join(', ')
RECURSIVE JoinIssues(_)
JoinIssues(issues) ==
    IF issues = <<>> THEN ""
    ELSE LET e == Head(issues).path \o ": " \o Head(issues).message
         IN IF Len(issues) = 1 THEN e ELSE e \o ", " \o JoinIssues(Tail(issues))

criarUsuarioSchema ==
    << ZMin("nome", 2, "Nome deve ter pelo menos 2 caracteres"),
       ZEmail("email", "Email deve ser valido"),
       ZDefaultTrue(ZField("ativo")) >>

\* Bodies of POST /usuarios: valid, valid with ativo and an unknown key, two
\* failed checks, one failed check, no key at all.
CriarUsuarioZodBodies ==
    { [nome |-> "Ana", email |-> "ana@x.com"],
      [nome |-> "Rui", email |-> "rui@x.com", ativo |-> FALSE, admin |-> TRUE],
      [nome |-> "A", email |-> "ana-at-x"],
      [nome |-> "Ana", email |-> "ana-at-x"],
      <<>> }

\* new Date().toISOString()
Timestamp == "new Date().toISOString()"

-----------------------------------------------------------------------------
(* Express: validateBody(schema) and the global error middleware, the same *)
(* text in express/02 src/server.ts, express/01 src/server.ts and          *)
(* express/01 src/routes/conexao_mysql.ts.                                 *)

\* The middleware that also hands the request on after it answered 400.
validateBodySemReturn(schema, body) ==
    LET r == ZodParse(schema, body)
    IN IF r.success
       THEN [body |-> r.data, sent |-> <<>>, next |-> <<"next()">>]
       ELSE [body |-> body,
             sent |-> << Response(400, [error |-> "Validation Error",
                                        message |-> JoinIssues(r.issues),
                                        timestamp |-> Timestamp]) >>,
             next |-> <<"next()">>]

\* validateBody(schema)(req, res, next): req.body afterwards, the responses it
\* sent and its calls of next.  schema.parse throws nothing but a ZodError for
\* the schemas of the repository, so `next(error)` is never taken.
validateBody(schema, body) ==
    LET r == ZodParse(schema, body)
    IN IF r.success
       THEN [body |-> r.data, sent |-> <<>>, next |-> <<"next()">>]
       ELSE [body |-> body,
             sent |-> << Response(400, [error |-> "Validation Error",
                                        message |-> JoinIssues(r.issues),
                                        timestamp |-> Timestamp]) >>,
             next |-> <<>>]

\* the number of times Express runs the route handler behind the middleware
HandlerRuns(mw) == Len(SelectSeq(mw.next, LAMBDA c : c = "next()"))

\* app.use((error, req, res, next) => ...)
InternalServerError ==
    Response(500, [error |-> "Internal Server Error",
                   message |-> "Algo deu errado no servidor",
                   timestamp |-> Timestamp])

\* Math.floor(Math.random() * 1000): the two ends of its range
RandomIdsExpress == {0, 999}

\* express/02: app.post('/usuarios', validateBody(criarUsuarioSchema), handler)
PostUsuariosExpress(body, random) ==
    /\ variant = "express02"
    /\ process = "running"
    /\ server = "listening"
    /\ LET mw == validateBody(criarUsuarioSchema, body)
           novoUsuario == [id |-> random, nome |-> Get(mw.body, "nome"),
                           email |-> Get(mw.body, "email"),
                           ativo |-> IF "ativo" \in DOMAIN mw.body THEN mw.body.ativo ELSE TRUE]
       IN /\ req' = [method |-> "POST", route |-> "/usuarios", body |-> body]
          /\ trace' = [entered |-> TRUE, schema |-> criarUsuarioSchema, given |-> body,
                       body |-> mw.body, sent |-> mw.sent, next |-> mw.next,
                       handler |-> HandlerRuns(mw), queries |-> 0]
          /\ reply' = IF mw.sent # <<>> THEN Head(mw.sent) ELSE Response(201, novoUsuario)
    /\ UNCHANGED <<variant, memVars, dbVars, procVars>>

-----------------------------------------------------------------------------
(* fastify/03 src/server.ts: Fastify with the Zod validator compiler.      *)

\* app.setErrorHandler((error, request, reply) => reply.status(500).send(...)):
\* Fastify hands it every error of the request, a failed validation included.
ErrorHandlerFastify03(error) == InternalServerError

\* POST /usuarios
PostUsuariosFastifyZod(body, random) ==
    /\ variant = "fastify03"
    /\ process = "running"
    /\ server = "listening"
    /\ req' = [method |-> "POST", route |-> "/usuarios", body |-> body]
    /\ LET r == ZodParse(criarUsuarioSchema, body)
       IN reply' = IF ~r.success THEN ErrorHandlerFastify03(r.issues)
                   ELSE Response(201, [id |-> random, nome |-> r.data.nome,
                                       email |-> r.data.email, ativo |-> r.data.ativo])
    /\ UNCHANGED <<variant, memVars, expressVars>>

-----------------------------------------------------------------------------
(* src/03 src/server.ts: app.setErrorHandler.  Fastify hands it the error  *)
(* of a request that did not reach its handler: the ZodError of the        *)
(* validator compiler, or the error of the body parser.                    *)

createUserBodySchema ==
    << ZMin("name", 3, "O nome precisa ter no minimo 3 caracteres."),
       ZEmail("email", "Formato de e-mail invalido.") >>

\* Bodies createUserBodySchema rejects: two failed checks, one failed check,
\* a missing key, no key at all.
InvalidUserBodies ==
    { [name |-> "An", email |-> "ana-at-x"],
      [name |-> "Ana", email |-> "ana-at-x"],
      [name |-> "Ana"],
      <<>> }

\* The errors handed to the handler: `error instanceof ZodError` is name = "ZodError".
ZodError(issues) == [name |-> "ZodError", issues |-> issues]
\* JSON.parse failed on the request body
InvalidJsonBody ==
    [name |-> "FastifyError", code |-> "FST_ERR_CTP_INVALID_JSON_BODY", statusCode |-> 400]

\* error.flatten().fieldErrors: for each key with an issue, its messages in order
FieldErrors(issues) ==
    LET keys == {issues[i].path : i \in 1..Len(issues)}
        at(k) == SelectSeq(issues, LAMBDA e : e.path = k)
    IN [k \in keys |-> [i \in 1..Len(at(k)) |-> at(k)[i].message]]

\* The handler answering 500 whatever the error.
ErrorHandlerSemZod(error) ==
    Response(500, [statusCode |-> 500, error |-> "Internal Server Error",
                   message |-> "Ocorreu um erro inesperado no servidor."])

\* app.setErrorHandler((error, request, reply) => ...)
ErrorHandlerSrc03(error) ==
    IF error.name = "ZodError"
    THEN Response(400, [statusCode |-> 400, error |-> "Bad Request",
                        message |-> "Erro de validacao.",
                        issues |-> FieldErrors(error.issues)])
    ELSE Response(500, [statusCode |-> 500, error |-> "Internal Server Error",
                        message |-> "Ocorreu um erro inesperado no servidor."])

\* POST /users with a body the validator compiler rejects
PostUsersInvalid(body) ==
    /\ variant = "src03"
    /\ process = "running"
    /\ server = "listening"
    /\ ZIssues(createUserBodySchema, body) # <<>>
    /\ req' = [method |-> "POST", route |-> "/users", body |-> body]
    /\ LET error == ZodError(ZIssues(createUserBodySchema, body))
       IN /\ trace' = [entered |-> FALSE, error |-> error]
          /\ reply' = ErrorHandlerSrc03(error)
    /\ UNCHANGED <<variant, memVars, dbVars, procVars>>

\* POST /users with a body that is not JSON
PostUsersMalformed ==
    /\ variant = "src03"
    /\ process = "running"
    /\ server = "listening"
    /\ req' = [method |-> "POST", route |-> "/users", raw |-> "{"]
    /\ trace' = [entered |-> FALSE, error |-> InvalidJsonBody]
    /\ reply' = ErrorHandlerSrc03(InvalidJsonBody)
    /\ UNCHANGED <<variant, memVars, dbVars, procVars>>

-----------------------------------------------------------------------------
(* src/03 src/routes.ts: the plugin routes(app) with its one route.        *)

\* GET /health: the async handler builds healthData and returns nothing, and
\* never calls reply.send.  Fastify sends no response for a handler promise
\* fulfilled with undefined (it logs FST_ERR_PROMISE_NOT_FULFILLED): the
\* request stays unanswered.
GetHealthRoutes ==
    /\ variant = "routes03"
    /\ process = "running"
    /\ server = "listening"
    /\ req' = [method |-> "GET", route |-> "/health"]
    /\ reply' = NoReply
    /\ UNCHANGED <<variant, memVars, trace, dbVars, procVars>>

-----------------------------------------------------------------------------
(* unnamed/part_001: start() of the simple Fastify server with Zod.  For   *)
(* this variant `server` follows start(): "created", "cors registered",    *)
(* "ready", "swagger registered", and the process ends in the catch.       *)

\* app.ready() booted the instance: a later app.register throws
Booted(state) == state \in {"ready", "listening"}

\* await app.register(import('@fastify/cors'), { origin: true })
StartRegisterCors ==
    /\ variant = "part001"
    /\ process = "running"
    /\ server = "created"
    /\ server' = "cors registered"
    /\ UNCHANGED <<variant, req, reply, memVars, trace, dbVars, signal, exitCode>>

\* await app.ready()
StartReady ==
    /\ variant = "part001"
    /\ process = "running"
    /\ server = "cors registered"
    /\ server' = "ready"
    /\ UNCHANGED <<variant, req, reply, memVars, trace, dbVars, signal, exitCode>>

\* await app.register(fastifySwagger, ...) after app.ready(): register throws
\* on a booted instance, and the catch of start() calls process.exit(1)
StartRegisterSwagger ==
    /\ variant = "part001"
    /\ process = "running"
    /\ server = "ready"
    /\ IF Booted(server)
       THEN /\ process' = "exited"
            /\ exitCode' = <<1>>
            /\ UNCHANGED server
       ELSE /\ server' = "swagger registered"
            /\ UNCHANGED <<process, exitCode>>
    /\ UNCHANGED <<variant, req, reply, memVars, trace, usersTable, tasksTable, nextId,
                   uniqueEmailKey, connection, pending, outcome, signal>>

-----------------------------------------------------------------------------
(* src/06 src/server.js: userRouter, mounted at /api/users.                *)

\* the users userRouter.get('/') lists
routerUsers ==
    << [id |-> 1, name |-> "Joao Silva", email |-> "joao@exemplo.com"],
       [id |-> 2, name |-> "Maria Santos", email |-> "maria@exemplo.com"],
       [id |-> 3, name |-> "Pedro Costa", email |-> "pedro@exemplo.com"] >>

\* userRouter.get('/:id')
GetApiUserById(id) ==
    /\ variant = "router06"
    /\ req' = [method |-> "GET", route |-> "/api/users/:id", id |-> id]
    /\ reply' = Response(200, [id |-> ParseInt(id), name |-> "Joao Silva",
                               email |-> "joao@exemplo.com"])
    /\ UNCHANGED <<variant, memVars, expressVars>>

-----------------------------------------------------------------------------
(* express/01: Express over one mysql2 connection.  src/server.ts has the  *)
(* /user routes; src/routes/conexao_mysql.ts repeats its text and adds the *)
(* /tasks routes.  Variant "express01" runs server.ts; variant             *)
(* "conexaoMysql" runs conexao_mysql.ts and is asked for the routes over   *)
(* table tasks, its other routes being the text already run as express01.  *)
(* mysql2 runs the queries of a connection one after the other and the     *)
(* synchronous part of a handler reads no table, so requests are taken one *)
(* at a time: `req` is the request in progress, `reply` its response       *)
(* (NoReply while its query is pending).                                   *)

MySQL == {"express01", "conexaoMysql"}

NoOutcome == [called |-> FALSE]

\* join with the separator left out
JoinSemSeparador(arr, sep) ==
    IF arr = <<>> THEN "" ELSE arr[1] \o (IF Len(arr) > 1 THEN " " \o arr[2] ELSE "")

\* Array.prototype.join
RECURSIVE Join(_, _)
Join(arr, sep) ==
    IF arr = <<>> THEN ""
    ELSE IF Len(arr) = 1 THEN Head(arr)
    ELSE Head(arr) \o sep \o Join(Tail(arr), sep)

\* ---- MySQL: the statements of the handlers, executed on the tables.

UserRow(id, name, email, password) ==
    [id |-> id, name |-> name, email |-> email, password |-> password]
TaskRow(id, title, description, status, id_user) ==
    [id |-> id, title |-> title, description |-> description, status |-> status,
     id_user |-> id_user]

\* WHERE column = value: the rows it keeps, in table order
Where(table, column, value) == SelectSeq(table, LAMBDA r : r[column] = value)
\* DELETE ... WHERE column = value
DeleteWhere(table, column, value) == SelectSeq(table, LAMBDA r : r[column] # value)
\* UPDATE ... SET assignments WHERE column = value
UpdateWhere(table, column, value, assignments) ==
    [i \in 1..Len(table) |->
        IF table[i][column] = value
        THEN [k \in DOMAIN table[i] |->
                IF k \in DOMAIN assignments THEN assignments[k] ELSE table[i][k]]
        ELSE table[i]]

\* whether writing `email` to the rows other than `id` breaks the UNIQUE key
DuplicateEntry(email, id) ==
    /\ uniqueEmailKey
    /\ \E i \in 1..Len(usersTable) : usersTable[i].email = email /\ usersTable[i].id # id

\* The failed statement reported to the callback as a success.
QueryErrorComoSucesso ==
    [err |-> FALSE, results |-> [insertId |-> 0, affectedRows |-> 0],
     usersTable |-> usersTable, tasksTable |-> tasksTable, nextId |-> nextId]

QueryError == [err |-> TRUE, results |-> <<>>,
               usersTable |-> usersTable, tasksTable |-> tasksTable, nextId |-> nextId]
Rows(rows) == [err |-> FALSE, results |-> rows,
               usersTable |-> usersTable, tasksTable |-> tasksTable, nextId |-> nextId]
WroteUsers(table, results) ==
    [err |-> FALSE, results |-> results,
     usersTable |-> table, tasksTable |-> tasksTable, nextId |-> nextId]
WroteTasks(table, results) ==
    [err |-> FALSE, results |-> results,
     usersTable |-> usersTable, tasksTable |-> table, nextId |-> nextId]

Columns == {"name", "email", "password", "title", "description", "status", "id_user"}

\* SET of the dynamic UPDATE: the i-th "column = ?" takes the i-th value (the
\* last value is the id of the WHERE clause)
SetColumns(updates, values) ==
    LET set == {k \in Columns : \E i \in 1..(Len(values) - 1) : updates[i] = k \o " = ?"}
    IN [k \in set |-> values[CHOOSE i \in 1..(Len(values) - 1) : updates[i] = k \o " = ?"]]

\* The server's execution of a statement: what the callback receives and the
\* tables afterwards.  Every statement fails once the connection is lost.
Execute(q) ==
    LET v == q.values
    IN IF connection # "connected" THEN QueryError
       ELSE CASE q.op = "SELECT COUNT(*) users FROM users" ->
                   Rows(<< [users |-> Len(usersTable)] >>)
              [] q.op = "SELECT * FROM users" -> Rows(usersTable)
              [] q.op = "SELECT * FROM users WHERE id = ?" ->
                   Rows(Where(usersTable, "id", ParseInt(v[1])))
              [] q.op = "SELECT * FROM users WHERE email = ?" ->
                   Rows(Where(usersTable, "email", v[1]))
              [] q.op = "INSERT INTO users" ->
                   IF DuplicateEntry(v[2], 0) THEN QueryError
                   ELSE [WroteUsers(Append(usersTable, UserRow(nextId.users, v[1], v[2], v[3])),
                                    [insertId |-> nextId.users, affectedRows |-> 1])
                         EXCEPT !.nextId.users = @ + 1]
              [] q.op = "UPDATE users SET name, email, password" ->
                   IF (\E i \in 1..Len(usersTable) : usersTable[i].id = v[4])
                        /\ DuplicateEntry(v[2], v[4])
                   THEN QueryError
                   ELSE WroteUsers(
                          UpdateWhere(usersTable, "id", v[4],
                                      [name |-> v[1], email |-> v[2], password |-> v[3]]),
                          [affectedRows |-> Len(Where(usersTable, "id", v[4]))])
              [] q.op = "UPDATE users SET ..." ->
                   LET id == v[Len(v)]
                   IN IF (\E i \in 1..Len(usersTable) : usersTable[i].id = id)
                          /\ (\E i \in 1..(Len(v) - 1) :
                                q.updates[i] = "email = ?" /\ DuplicateEntry(v[i], id))
                      THEN QueryError
                      ELSE WroteUsers(
                             UpdateWhere(usersTable, "id", id, SetColumns(q.updates, v)),
                             [affectedRows |-> Len(Where(usersTable, "id", id))])
              [] q.op = "DELETE FROM users" ->
                   WroteUsers(DeleteWhere(usersTable, "id", v[1]),
                              [affectedRows |-> Len(Where(usersTable, "id", v[1]))])
              [] q.op = "SELECT * FROM tasks" -> Rows(tasksTable)
              [] q.op = "SELECT * FROM tasks WHERE id = ?" ->
                   Rows(Where(tasksTable, "id", ParseInt(v[1])))
              [] q.op = "SELECT * FROM tasks WHERE id_user = ?" ->
                   Rows(Where(tasksTable, "id_user", ParseInt(v[1])))
              [] q.op = "INSERT INTO tasks" ->
                   [WroteTasks(Append(tasksTable, TaskRow(nextId.tasks, v[1], v[2], v[3], v[4])),
                               [insertId |-> nextId.tasks, affectedRows |-> 1])
                    EXCEPT !.nextId.tasks = @ + 1]
              [] q.op = "UPDATE tasks SET title, description, status, id_user" ->
                   WroteTasks(
                     UpdateWhere(tasksTable, "id", v[5],
                                 [title |-> v[1], description |-> v[2], status |-> v[3],
                                  id_user |-> v[4]]),
                     [affectedRows |-> Len(Where(tasksTable, "id", v[5]))])
              [] q.op = "UPDATE tasks SET ..." ->
                   LET id == v[Len(v)]
                   IN WroteTasks(
                        UpdateWhere(tasksTable, "id", id, SetColumns(q.updates, v)),
                        [affectedRows |-> Len(Where(tasksTable, "id", id))])
              [] q.op = "DELETE FROM tasks" ->
                   WroteTasks(DeleteWhere(tasksTable, "id", v[1]),
                              [affectedRows |-> Len(Where(tasksTable, "id", v[1]))])

\* ---- the schemas of the request bodies

createUserSchema ==
    << ZMin("name", 2, "Nome deve ter pelo menos 2 caracteres"),
       ZEmail("email", "Email deve ser valido"),
       ZOptional(ZMin("password", 6, "Senha deve ter pelo menos 6 caracteres")) >>
updateUserSchema ==
    << ZOptional(ZMin("name", 2, "Nome deve ter pelo menos 2 caracteres")),
       ZOptional(ZEmail("email", "Email deve ser valido")),
       ZOptional(ZMin("password", 6, "Senha deve ter pelo menos 6 caracteres")) >>
createTaskSchema ==
    << ZMin("title", 2, "Titulo deve ter pelo menos 2 caracteres"),
       ZOptional(ZField("description")),
       ZMin("status", 1, "Status e obrigatorio"),
       ZPositive("id_user", "ID do usuario deve ser um numero positivo") >>
updateTaskSchema ==
    << ZOptional(ZMin("title", 2, "Titulo deve ter pelo menos 2 caracteres")),
       ZOptional(ZField("description")),
       ZOptional(ZMin("status", 1, "Status e obrigatorio")),
       ZOptional(ZPositive("id_user", "ID do usuario deve ser um numero positivo")) >>
\* schema.extend({ id: z.number() })
ExtendId(schema) == Append(schema, ZField("id"))
\* z.object({ id: z.number() })
idSchema == << ZField("id") >>

\* ---- the callbacks handed to connection.query: the calls of res.send and
\* res.json they make, in order

SendText(status, text) == Response(status, [text |-> text])
\* res.json(results) for the rows of a SELECT
JsonRows(results) == Response(200, [rows |-> results])
\* res.json(undefined): nothing is written
JsonUndefined == Response(200, <<>>)

\* GET /
RootCallback(err, results) ==
    (IF err THEN << SendText(200, "MySQL connection error.") >> ELSE <<>>)
        \o << SendText(200, "MySQL connection OK.") >>
\* GET /user/:id and GET /user/:id/tasks/
SendThenJsonCallback(err, results) ==
    IF err THEN << SendText(200, "MySQL connection error."), JsonUndefined >>
    ELSE << JsonRows(results) >>
\* GET /user, GET /login, GET /tasks, GET /tasks/:id
SelectCallback(err, results) ==
    IF err THEN << SendText(500, "MySQL connection error.") >>
    ELSE << JsonRows(results) >>
\* POST /user, POST /tasks
InsertCallback(err, results, created) ==
    IF err THEN << SendText(500, "MySQL connection error.") >>
    ELSE << Response(201, [message |-> created, id |-> results.insertId]) >>
\* The callback without its affectedRows test.
AffectedCallbackSemTeste(err, results, id, notFound, done) ==
    IF err THEN << SendText(500, "MySQL connection error.") >>
    ELSE << Response(200, [message |-> done, id |-> id]) >>

\* PUT, PATCH and DELETE of /user and /tasks
AffectedCallback(err, results, id, notFound, done) ==
    IF err THEN << SendText(500, "MySQL connection error.") >>
    ELSE IF results.affectedRows = 0 THEN << Response(404, [message |-> notFound]) >>
    ELSE << Response(200, [message |-> done, id |-> id]) >>

Callback(q, err, results) ==
    CASE q.route = "GET /" -> RootCallback(err, results)
      [] q.route \in {"GET /user/:id", "GET /user/:id/tasks/"} -> SendThenJsonCallback(err, results)
      [] q.route \in {"GET /user", "GET /login", "GET /tasks", "GET /tasks/:id"} ->
           SelectCallback(err, results)
      [] q.route = "POST /user" -> InsertCallback(err, results, "Usuario criado com sucesso")
      [] q.route = "POST /tasks" -> InsertCallback(err, results, "Tarefa criada com sucesso")
      [] q.route \in {"PUT /user", "PATCH /user"} ->
           AffectedCallback(err, results, q.id, "Usuario nao encontrado",
                            "Usuario atualizado com sucesso")
      [] q.route = "DELETE /user" ->
           AffectedCallback(err, results, q.id, "Usuario nao encontrado",
                            "Usuario deletado com sucesso")
      [] q.route \in {"PUT /tasks", "PATCH /tasks"} ->
           AffectedCallback(err, results, q.id, "Tarefa nao encontrada",
                            "Tarefa atualizada com sucesso")
      [] q.route = "DELETE /tasks" ->
           AffectedCallback(err, results, q.id, "Tarefa nao encontrada",
                            "Tarefa deletada com sucesso")

\* A later res.send or res.json that has something to write finds the headers
\* sent and throws ERR_HTTP_HEADERS_SENT.
SendThrows(calls) == \E i \in 2..Len(calls) : calls[i].body # <<>>

\* ---- the requests

DbIdParams == {<<1>>, <<2>>}
BodyIds == {1, 2}
LoginEmails == {"ana@x.com", "rui@x.com"}

\* valid with a password; three failed checks
PostUserBodies ==
    { [name |-> "Ana", email |-> "ana@x.com", password |-> "secret1"],
      [name |-> "A", email |-> "ana-at-x", password |-> "123"] }
\* valid without a password; no id
PutUserBodies ==
    { [id |-> i, name |-> "Rui", email |-> "ana@x.com"] : i \in BodyIds }
        \cup { [name |-> "Rui", email |-> "ana@x.com"] }
\* one field; all three fields; no field; a failed check; no id
PatchUserBodies ==
    { [id |-> i, name |-> "Rui"] : i \in BodyIds }
        \cup { [id |-> i, password |-> "secret1"] : i \in BodyIds }
        \cup { [id |-> 1, name |-> "Rui", email |-> "ana@x.com", password |-> "secret1"],
               [id |-> 1],
               [id |-> 1, email |-> "ana-at-x"],
               [name |-> "Rui"] }
DeleteBodies == { [id |-> i] : i \in BodyIds } \cup { <<>> }
\* valid without a description; three failed checks
PostTaskBodies ==
    { [title |-> "Task", status |-> "open", id_user |-> 1],
      [title |-> "T", status |-> "", id_user |-> 0] }
PutTaskBodies ==
    { [id |-> i, title |-> "Task", description |-> "desc", status |-> "done", id_user |-> 1]
        : i \in BodyIds }
        \cup { [title |-> "Task", status |-> "done", id_user |-> 1] }
PatchTaskBodies ==
    { [id |-> i, status |-> "done"] : i \in BodyIds }
        \cup { [id |-> 1, title |-> "Task", description |-> "desc", id_user |-> 1],
               [id |-> 1],
               [id |-> 1, id_user |-> 0] }

Query(route, op, values) == [route |-> route, op |-> op, values |-> values]

\* a route without middleware: the handler hands its query to connection.query
Ask(request, query) ==
    /\ process = "running"
    /\ pending = <<>>
    /\ req' = request
    /\ reply' = NoReply
    /\ trace' = NoTrace
    /\ pending' = << query >>
    /\ outcome' = NoOutcome
    /\ UNCHANGED <<variant, memVars, usersTable, tasksTable, nextId, uniqueEmailKey,
                   connection, process, procVars>>

\* a route behind validateBody(schema): mw is what the middleware did, and
\* the handler runs when next() was called; h gives the responses the handler
\* sends itself for mw.body and the query it hands to connection.query
Handle(request, schema, mw, h) ==
    LET runs == HandlerRuns(mw)
        sent == mw.sent \o (IF runs > 0 THEN h.sent ELSE <<>>)
        query == IF runs > 0 THEN h.query ELSE <<>>
    IN /\ process = "running"
       /\ pending = <<>>
       /\ req' = request
       /\ trace' = [entered |-> TRUE, schema |-> schema, given |-> request.body,
                    body |-> mw.body, sent |-> mw.sent, next |-> mw.next,
                    handler |-> runs, queries |-> Len(query)]
       /\ reply' = IF sent # <<>> THEN Head(sent) ELSE NoReply
       /\ pending' = query
       /\ outcome' = NoOutcome
       /\ UNCHANGED <<variant, memVars, usersTable, tasksTable, nextId, uniqueEmailKey,
                      connection, process, procVars>>

Asks(query) == [sent |-> <<>>, query |-> << query >>]

\* the handlers of PATCH /user and PATCH /tasks over the columns they test
PatchHandler(route, table, columns, body) ==
    LET given == SelectSeq(columns, LAMBDA k : k \in DOMAIN body)
        updates == [i \in 1..Len(given) |-> given[i] \o " = ?"]
        values == [i \in 1..Len(given) |-> body[given[i]]]
        op == "UPDATE " \o table \o " SET ..."
    IN IF Len(updates) = 0
       THEN [sent |-> << Response(400,
                           [error |-> "Validation Error",
                            message |-> "Pelo menos um campo deve ser fornecido para atualizacao",
                            timestamp |-> Timestamp]) >>,
             query |-> <<>>]
       ELSE Asks([route |-> route, op |-> op,
                  sql |-> "UPDATE " \o table \o " SET "
                            \o Join(Append(updates, "updated_at = NOW()"), ", ")
                            \o " WHERE id = ?",
                  updates |-> Append(updates, "updated_at = NOW()"),
                  values |-> Append(values, Get(body, "id")),
                  id |-> Get(body, "id")])

\* ---- the routes of src/server.ts

\* app.get("/")
GetRoot ==
    /\ variant = "express01"
    /\ Ask([method |-> "GET", route |-> "/"],
        Query("GET /", "SELECT COUNT(*) users FROM users", <<>>))

\* app.get("/user")
GetUsers ==
    /\ variant = "express01"
    /\ Ask([method |-> "GET", route |-> "/user"],
        Query("GET /user", "SELECT * FROM users", <<>>))

\* app.post("/user", validateBody(createUserSchema), ...)
PostUser(body) ==
    /\ nextId.users <= MaxRows
    /\ variant = "express01"
    /\ LET mw == validateBody(createUserSchema, body)
       IN Handle([method |-> "POST", route |-> "/user", body |-> body],
                 createUserSchema, mw,
                 Asks(Query("POST /user", "INSERT INTO users",
                                    << Get(mw.body, "name"), Get(mw.body, "email"),
                                       OrNull(Get(mw.body, "password")) >>)))

\* app.put("/user", validateBody(createUserSchema.extend({ id: z.number() })), ...)
PutUserDb(body) ==
    /\ variant = "express01"
    /\ LET mw == validateBody(ExtendId(createUserSchema), body)
       IN Handle([method |-> "PUT", route |-> "/user", body |-> body],
                 ExtendId(createUserSchema), mw,
                 Asks(Query("PUT /user", "UPDATE users SET name, email, password",
                                 << Get(mw.body, "name"), Get(mw.body, "email"),
                                    OrNull(Get(mw.body, "password")), Get(mw.body, "id") >>)
                           @@ [id |-> Get(mw.body, "id")]))

\* app.patch("/user", validateBody(updateUserSchema.extend({ id: z.number() })), ...)
PatchUser(body) ==
    /\ variant = "express01"
    /\ LET mw == validateBody(ExtendId(updateUserSchema), body)
       IN Handle([method |-> "PATCH", route |-> "/user", body |-> body],
                 ExtendId(updateUserSchema), mw,
                 PatchHandler("PATCH /user", "users", <<"name", "email", "password">>, mw.body))

\* app.delete("/user", validateBody(z.object({ id: z.number() })), ...)
DeleteUserDb(body) ==
    /\ variant = "express01"
    /\ LET mw == validateBody(idSchema, body)
       IN Handle([method |-> "DELETE", route |-> "/user", body |-> body],
                 idSchema, mw,
                 Asks(Query("DELETE /user", "DELETE FROM users", << Get(mw.body, "id") >>)
                           @@ [id |-> Get(mw.body, "id")]))

\* app.get("/user/:id")
GetUserByIdDb(id) ==
    /\ variant = "express01"
    /\ Ask([method |-> "GET", route |-> "/user/:id", id |-> id],
        Query("GET /user/:id", "SELECT * FROM users WHERE id = ?", << id >>))

\* app.get("/login")
GetLogin(email) ==
    /\ variant = "express01"
    /\ Ask([method |-> "GET", route |-> "/login", email |-> email],
        Query("GET /login", "SELECT * FROM users WHERE email = ?", << email >>))

\* app.use(express.json()) cannot parse the body of a POST /user: it calls
\* next(err), which Express hands to the error middleware
PostUserMalformed ==
    /\ variant = "express01"
    /\ process = "running"
    /\ pending = <<>>
    /\ req' = [method |-> "POST", route |-> "/user", raw |-> "{"]
    /\ reply' = InternalServerError
    /\ trace' = NoTrace
    /\ outcome' = NoOutcome
    /\ UNCHANGED <<variant, memVars, usersTable, tasksTable, nextId, uniqueEmailKey,
                   connection, pending, process, procVars>>

\* ---- the routes of src/routes/conexao_mysql.ts over table tasks

\* app.get("/user/:id/tasks/")
GetUserTasks(id) ==
    /\ variant = "conexaoMysql"
    /\ Ask([method |-> "GET", route |-> "/user/:id/tasks/", id |-> id],
        Query("GET /user/:id/tasks/", "SELECT * FROM tasks WHERE id_user = ?", << id >>))

\* app.get("/tasks")
GetTasks ==
    /\ variant = "conexaoMysql"
    /\ Ask([method |-> "GET", route |-> "/tasks"],
        Query("GET /tasks", "SELECT * FROM tasks", <<>>))

\* app.post("/tasks", validateBody(createTaskSchema), ...)
PostTask(body) ==
    /\ nextId.tasks <= MaxRows
    /\ variant = "conexaoMysql"
    /\ LET mw == validateBody(createTaskSchema, body)
       IN Handle([method |-> "POST", route |-> "/tasks", body |-> body],
                 createTaskSchema, mw,
                 Asks(Query("POST /tasks", "INSERT INTO tasks",
                                    << Get(mw.body, "title"), OrNull(Get(mw.body, "description")),
                                       Get(mw.body, "status"), Get(mw.body, "id_user") >>)))

\* app.put("/tasks", validateBody(createTaskSchema.extend({ id: z.number() })), ...)
PutTask(body) ==
    /\ variant = "conexaoMysql"
    /\ LET mw == validateBody(ExtendId(createTaskSchema), body)
       IN Handle([method |-> "PUT", route |-> "/tasks", body |-> body],
                 ExtendId(createTaskSchema), mw,
                 Asks(Query("PUT /tasks",
                                 "UPDATE tasks SET title, description, status, id_user",
                                 << Get(mw.body, "title"), OrNull(Get(mw.body, "description")),
                                    Get(mw.body, "status"), Get(mw.body, "id_user"), Get(mw.body, "id") >>)
                           @@ [id |-> Get(mw.body, "id")]))

\* app.patch("/tasks", validateBody(updateTaskSchema.extend({ id: z.number() })), ...)
PatchTask(body) ==
    /\ variant = "conexaoMysql"
    /\ LET mw == validateBody(ExtendId(updateTaskSchema), body)
       IN Handle([method |-> "PATCH", route |-> "/tasks", body |-> body],
                 ExtendId(updateTaskSchema), mw,
                 PatchHandler("PATCH /tasks", "tasks",
                                   <<"title", "description", "status", "id_user">>, mw.body))

\* app.delete("/tasks", validateBody(z.object({ id: z.number() })), ...)
DeleteTask(body) ==
    /\ variant = "conexaoMysql"
    /\ LET mw == validateBody(idSchema, body)
       IN Handle([method |-> "DELETE", route |-> "/tasks", body |-> body],
                 idSchema, mw,
                 Asks(Query("DELETE /tasks", "DELETE FROM tasks", << Get(mw.body, "id") >>)
                           @@ [id |-> Get(mw.body, "id")]))

\* app.get("/tasks/:id")
GetTaskById(id) ==
    /\ variant = "conexaoMysql"
    /\ Ask([method |-> "GET", route |-> "/tasks/:id", id |-> id],
        Query("GET /tasks/:id", "SELECT * FROM tasks WHERE id = ?", << id >>))

\* ---- mysql2 and the process

\* mysql2 completes the pending query and calls its callback.  What the
\* callback throws is caught by nobody: it is an uncaught exception, which ends
\* the process (no 'uncaughtException' listener is installed).
QueryDone ==
    /\ variant \in MySQL
    /\ process = "running"
    /\ pending # <<>>
    /\ LET q == Head(pending)
           out == Execute(q)
           calls == Callback(q, out.err, out.results)
       IN /\ usersTable' = out.usersTable
          /\ tasksTable' = out.tasksTable
          /\ nextId' = out.nextId
          /\ reply' = Head(calls)
          /\ outcome' = [called |-> TRUE, err |-> out.err, calls |-> calls,
                         thrown |-> SendThrows(calls)]
          /\ process' = IF SendThrows(calls) THEN "exited" ELSE "running"
          /\ exitCode' = IF SendThrows(calls) THEN <<1>> ELSE exitCode
    /\ pending' = Tail(pending)
    /\ UNCHANGED <<variant, req, trace, memVars, uniqueEmailKey, connection, server, signal>>

\* The connection to the server is lost; nothing opens another.  With a query
\* pending its callback gets the error.  With none pending mysql2 emits
\* 'error' on the connection, which has no listener: the process may end.
ConnectionLost ==
    /\ variant \in MySQL
    /\ process = "running"
    /\ connection = "connected"
    /\ connection' = "closed"
    /\ process' \in (IF pending = <<>> THEN {"running", "exited"} ELSE {"running"})
    /\ exitCode' = IF process' = "exited" THEN <<1>> ELSE exitCode
    /\ UNCHANGED <<variant, req, reply, trace, memVars, usersTable, tasksTable, nextId,
                   uniqueEmailKey, pending, outcome, server, signal>>

-----------------------------------------------------------------------------
(* gracefulShutdown, installed for SIGTERM and SIGINT by src/03,           *)
(* fastify/03, express/02 and express/01.  The signal that starts it is    *)
(* the first the process receives.                                         *)

Signals == {"SIGTERM", "SIGINT"}
FastifyShutdown == {"src03", "fastify03"}
ExpressShutdown == {"express02", "express01", "conexaoMysql"}

\* src/03 and fastify/03: gracefulShutdown up to `await app.close()`; Fastify
\* stops accepting requests while it closes
GracefulShutdownFastify(sig) ==
    /\ variant \in FastifyShutdown
    /\ process = "running"
    /\ signal = "none"
    /\ signal' = sig
    /\ server' = "closing"
    /\ UNCHANGED <<variant, req, reply, memVars, trace, dbVars, exitCode>>

\* app.close() settles: it resolves, or rejects when a close hook fails
AppCloseSettles(resolved) ==
    /\ variant \in FastifyShutdown
    /\ process = "running"
    /\ server = "closing"
    /\ server' = IF resolved THEN "closed" ELSE "close failed"
    /\ UNCHANGED <<variant, req, reply, memVars, trace, dbVars, signal, exitCode>>

\* gracefulShutdown with process.exit(0) in its catch as well.
GracefulShutdownExitSempre0 ==
    /\ variant \in FastifyShutdown
    /\ process = "running"
    /\ server \in {"closed", "close failed"}
    /\ process' = "exited"
    /\ exitCode' = <<0>>
    /\ UNCHANGED <<variant, req, reply, memVars, trace, usersTable, tasksTable, nextId,
                   uniqueEmailKey, connection, pending, outcome, server, signal>>

\* the rest of gracefulShutdown: process.exit(0) after the await, process.exit(1)
\* in the catch
GracefulShutdownExit ==
    /\ variant \in FastifyShutdown
    /\ process = "running"
    /\ server \in {"closed", "close failed"}
    /\ process' = "exited"
    /\ exitCode' = IF server = "closed" THEN <<0>> ELSE <<1>>
    /\ UNCHANGED <<variant, req, reply, memVars, trace, usersTable, tasksTable, nextId,
                   uniqueEmailKey, connection, pending, outcome, server, signal>>

\* express/02 and express/01: gracefulShutdown logs and calls process.exit(0);
\* the server app.listen returned is kept nowhere and nothing closes it
GracefulShutdownExpress(sig) ==
    /\ variant \in ExpressShutdown
    /\ process = "running"
    /\ signal = "none"
    /\ signal' = sig
    /\ process' = "exited"
    /\ exitCode' = <<0>>
    /\ UNCHANGED <<variant, req, reply, memVars, trace, usersTable, tasksTable, nextId,
                   uniqueEmailKey, connection, pending, outcome, server>>

-----------------------------------------------------------------------------

Variants ==
    FastifyMem \cup {"src04", "src03", "routes03", "part001", "express02", "fastify03", "router06"}
        \cup MySQL

Init ==
    /\ variant \in Variants
    /\ req = NoReq
    /\ reply = NoReply
    /\ usuariosMock = IF variant \in FastifyMem THEN usuariosMockSeed
                      ELSE IF variant = "src04" THEN usuariosMockMinimal
                      ELSE <<>>
    /\ users = <<>>
    /\ trace = NoTrace
    /\ usersTable = <<>>
    /\ tasksTable = <<>>
    /\ nextId = [users |-> 1, tasks |-> 1]
    /\ uniqueEmailKey \in (IF variant = "express01" THEN BOOLEAN ELSE {FALSE})
    /\ connection \in (IF variant \in MySQL THEN {"connected", "closed"} ELSE {"connected"})
    /\ pending = <<>>
    /\ process = "running"
    /\ outcome = NoOutcome
    /\ server = IF variant = "part001" THEN "created" ELSE "listening"
    /\ signal = "none"
    /\ exitCode = <<>>

Next ==
    \/ \E body \in CriarBodies : PostUsuarios(body)
    \/ \E id \in IdParams : GetUsuarioById(id)
    \/ \E id \in IdParams, updates \in AtualizarBodies : PutUsuario(id, updates)
    \/ \E id \in IdParams : DeleteUsuario(id)
    \/ \E body \in CriarBodies, random \in RandomIds : StubPostUsuarios(body, random)
    \/ \E id \in IdParams, updates \in AtualizarBodies : StubPutUsuario(id, updates)
    \/ \E id \in IdParams : StubDeleteUsuario(id)
    \/ \E body \in CreateUserBodies, uuid \in UUIDs, now \in Dates : PostUsers(body, uuid, now)
    \/ \E id \in UUIDs : GetUserById(id)
    \/ \E id \in UUIDs, body \in UpdateUserBodies : PutUser(id, body)
    \/ \E id \in UUIDs : DeleteUser(id)
    \/ \E body \in InvalidUserBodies : PostUsersInvalid(body)
    \/ PostUsersMalformed
    \/ GetHealthRoutes
    \/ StartRegisterCors
    \/ StartReady
    \/ StartRegisterSwagger
    \/ \E body \in CriarUsuarioZodBodies, random \in RandomIdsExpress :
          PostUsuariosExpress(body, random)
    \/ \E body \in CriarUsuarioZodBodies, random \in RandomIdsExpress :
          PostUsuariosFastifyZod(body, random)
    \/ \E id \in IdParams : GetApiUserById(id)
    \/ GetRoot
    \/ GetUsers
    \/ \E body \in PostUserBodies : PostUser(body)
    \/ PostUserMalformed
    \/ \E body \in PutUserBodies : PutUserDb(body)
    \/ \E body \in PatchUserBodies : PatchUser(body)
    \/ \E body \in DeleteBodies : DeleteUserDb(body)
    \/ \E id \in DbIdParams : GetUserByIdDb(id)
    \/ \E email \in LoginEmails : GetLogin(email)
    \/ \E id \in DbIdParams : GetUserTasks(id)
    \/ GetTasks
    \/ \E body \in PostTaskBodies : PostTask(body)
    \/ \E body \in PutTaskBodies : PutTask(body)
    \/ \E body \in PatchTaskBodies : PatchTask(body)
    \/ \E body \in DeleteBodies : DeleteTask(body)
    \/ \E id \in DbIdParams : GetTaskById(id)
    \/ QueryDone
    \/ ConnectionLost
    \/ \E sig \in Signals : GracefulShutdownFastify(sig)
    \/ \E resolved \in BOOLEAN : AppCloseSettles(resolved)
    \/ GracefulShutdownExit
    \/ \E sig \in Signals : GracefulShutdownExpress(sig)

Spec == Init /\ [][Next]_vars

\* fastify/05 started from an array that DELETE requests have reduced to
\* users 1 and 10 of the seed, or to fewer.
ArraysReduzidos ==
    { <<>>, << usuariosMockSeed[1] >>, << usuariosMockSeed[10] >>,
      << usuariosMockSeed[1], usuariosMockSeed[10] >> }

InitReduzido ==
    /\ variant = "fastify05"
    /\ req = NoReq
    /\ reply = NoReply
    /\ usuariosMock \in ArraysReduzidos
    /\ users = <<>>
    /\ trace = NoTrace
    /\ usersTable = <<>>
    /\ tasksTable = <<>>
    /\ nextId = [users |-> 1, tasks |-> 1]
    /\ uniqueEmailKey = FALSE
    /\ connection = "connected"
    /\ pending = <<>>
    /\ process = "running"
    /\ outcome = NoOutcome
    /\ server = "listening"
    /\ signal = "none"
    /\ exitCode = <<>>

NextUsuarios ==
    \/ \E body \in CriarBodies : PostUsuarios(body)
    \/ \E id \in IdParams : GetUsuarioById(id)
    \/ \E id \in IdParams, updates \in AtualizarBodies : PutUsuario(id, updates)
    \/ \E id \in IdParams : DeleteUsuario(id)

SpecReduzido == InitReduzido /\ [][NextUsuarios]_vars

(***************************************************************************)
(* Two POST requests in flight at once in the in-memory servers.  Node     *)
(* runs one callback at a time and a handler gives the event loop a chance *)
(* to run another one only at an await; the two POST handlers have none,   *)
(* so each runs as one step.  The event loop may run the handlers of the   *)
(* requests it has received in either order.                               *)
(***************************************************************************)
Concorrentes == FastifyMem \cup {"src03"}

\* The bodies that pass the schema of the POST route of the running server.
PostBodies == IF variant = "src03" THEN CreateUserBodies ELSE CriarBodies

InitConcorrente ==
    /\ variant \in Concorrentes
    /\ req = NoReq
    /\ reply = NoReply
    /\ usuariosMock \in (IF variant \in FastifyMem
                         THEN ArraysReduzidos \cup {usuariosMockSeed}
                         ELSE {<<>>})
    /\ users = <<>>
    /\ trace = NoTrace
    /\ usersTable = <<>>
    /\ tasksTable = <<>>
    /\ nextId = [users |-> 1, tasks |-> 1]
    /\ uniqueEmailKey = FALSE
    /\ connection = "connected"
    /\ pending = <<>>
    /\ process = "running"
    /\ outcome = NoOutcome
    /\ server = "listening"
    /\ signal = "none"
    /\ exitCode = <<>>

\* Two POST requests arrive before the handler of either has run.
ReceivePosts(body1, body2) ==
    /\ variant \in Concorrentes
    /\ {body1, body2} \subseteq PostBodies
    /\ pending = <<>>
    /\ pending' = << body1, body2 >>
    /\ outcome' = [called |-> FALSE,
                   posts |-> << body1, body2 >>,
                   antes |-> IF variant = "src03" THEN users ELSE usuariosMock,
                   respostas |-> <<>>]
    /\ UNCHANGED <<variant, req, reply, memVars, trace, usersTable, tasksTable, nextId,
                   uniqueEmailKey, connection, process, procVars>>

\* The event loop runs the handler of one of the requests in flight, whichever.
HandlePost(i, uuid, now) ==
    /\ variant \in Concorrentes
    /\ i \in 1..Len(pending)
    /\ IF variant = "src03"
       THEN PostUsersHandler(pending[i], uuid, now) /\ UNCHANGED usuariosMock
       ELSE PostUsuariosHandler(pending[i]) /\ UNCHANGED users
    /\ pending' = [k \in 1..(Len(pending) - 1) |-> IF k < i THEN pending[k] ELSE pending[k + 1]]
    /\ outcome' = [outcome EXCEPT !.respostas = Append(@, [body |-> pending[i], reply |-> reply'])]
    /\ UNCHANGED <<variant, trace, usersTable, tasksTable, nextId,
                   uniqueEmailKey, connection, process, procVars>>

NextConcorrente ==
    \/ \E body1, body2 \in CriarBodies \cup CreateUserBodies : ReceivePosts(body1, body2)
    \/ \E i \in 1..2, uuid \in UUIDs, now \in Dates : HandlePost(i, uuid, now)

SpecConcorrente == InitConcorrente /\ [][NextConcorrente]_vars

\* The event loop runs every callback that is due: the callback of a query
\* handed to connection.query, the continuation of `await app.close()` and
\* what follows it, and the steps of start().  Nothing obliges a client to
\* send a request or the system to send a signal.
LiveSpec ==
    /\ Spec
    /\ WF_vars(QueryDone)
    /\ WF_vars(\E resolved \in BOOLEAN : AppCloseSettles(resolved))
    /\ WF_vars(GracefulShutdownExit)
    /\ WF_vars(StartRegisterCors \/ StartReady \/ StartRegisterSwagger)

-----------------------------------------------------------------------------
(* Properties.                                                             *)

\* The array of the running in-memory variant.
InMemory == FastifyMem \cup {"src04", "src03"}
Arr == IF variant = "src03" THEN users ELSE usuariosMock

\* No two elements of arr carry the same email.
EmailsDistintos(arr) ==
    \A i, j \in 1..Len(arr) : i # j => arr[i].email # arr[j].email

\* C1: in fastify/04 and fastify/05, in every state reachable from the seeded
\* array by POST, PUT and DELETE requests, no two users have the same email.
C1_EmailsUnicosUsuariosMock ==
    variant \in FastifyMem => EmailsDistintos(usuariosMock)

\* C1 witness: a PUT that changed an email was accepted after a POST had added a user.
C1_Witness ==
    /\ variant \in FastifyMem
    /\ req.method = "PUT"
    /\ reply.status = 200
    /\ "email" \in DOMAIN req.body
    /\ Len(usuariosMock) > Len(usuariosMockSeed)

\* C2 (as claimed): in src/03, after any sequence of POST, PUT and DELETE
\* requests, no two users of the array have the same email.
C2_EmailsUnicosUsers ==
    variant = "src03" => EmailsDistintos(users)

\* C3: a POST that passed validation and whose email is already held by a user
\* of the array is rejected (a step of the shutdown serves no request)
\* (400 'Email já está em uso' in fastify/04 and /05, 409 'Conflict' in src/03)
\* and leaves the array as it was.
C3_PostDuplicadoRejeitado ==
    [][ ( /\ variant \in FastifyMem \cup {"src03"}
          /\ req'.method = "POST"
          /\ "error" \notin DOMAIN trace'
          /\ UNCHANGED <<server, signal, process>>
          /\ \E i \in 1..Len(Arr) : Arr[i].email = req'.body.email )
        => ( /\ Arr' = Arr
             /\ IF variant = "src03"
                THEN reply'.status = 409 /\ reply'.body.error = "Conflict"
                ELSE reply'.status = 400 /\ reply'.body.message = "Email ja esta em uso" )
      ]_vars

\* C3 witness: a POST was answered 400 while the array holds a user with its email.
C3_Witness ==
    /\ variant \in FastifyMem
    /\ req.method = "POST"
    /\ reply.status = 400
    /\ \E i \in 1..Len(usuariosMock) : usuariosMock[i].email = req.body.email

\* The id a GET request asks for, as the handler compares it with user ids.
IdPedido(r) == IF variant = "src03" THEN r.id ELSE ParseInt(r.id)

\* C5: in fastify/04, fastify/05, src/03 and src/04, GET by id answers 404 with
\* error 'Not Found' and a message when no user of the array has the id, and 200
\* with the user that has it otherwise; the array is unchanged in both cases.
C5_GetPorId ==
    [][ (variant \in InMemory /\ req'.method = "GET")
        => ( /\ Arr' = Arr
             /\ IF \A i \in 1..Len(Arr) : Arr[i].id # IdPedido(req')
                THEN /\ reply'.status = 404
                     /\ reply'.body.error = "Not Found"
                     /\ "message" \in DOMAIN reply'.body
                ELSE /\ reply'.status = 200
                     /\ \E i \in 1..Len(Arr) : /\ Arr[i] = reply'.body
                                               /\ Arr[i].id = IdPedido(req') )
      ]_vars

\* C5 witness: a GET was answered 404 by src/03 while its array holds a user.
C5_Witness ==
    /\ variant = "src03"
    /\ req.method = "GET"
    /\ reply.status = 404
    /\ Len(users) > 0

\* C4: in the MySQL-backed variant a POST /user whose email is that of a row of
\* table users is answered 409 or 400 and inserts no row.
C4_PostUserDuplicadoRejeitado ==
    [][ ( /\ variant \in MySQL
          /\ pending # <<>>
          /\ pending' = <<>>
          /\ Head(pending).route = "POST /user"
          /\ \E i \in 1..Len(usersTable) : usersTable[i].email = Head(pending).values[2] )
        => ( /\ reply'.status \in {400, 409}
             /\ usersTable' = usersTable ) ]_vars

\* whether table `table` has a row for the id of a path parameter
RowExists(table, id) == \E i \in 1..Len(table) : table[i].id = ParseInt(id)

\* C6: the lookup of an id for which no user (no task) exists is answered 404
\* by userRouter's GET /api/users/:id and by GET /user/:id and GET /tasks/:id
\* of the MySQL-backed variant.
C6_IdDesconhecido404 ==
    /\ ( /\ variant = "router06"
         /\ req # NoReq
         /\ \A i \in 1..Len(routerUsers) : routerUsers[i].id # ParseInt(req.id) )
       => reply.status = 404
    /\ ( /\ variant \in MySQL
         /\ outcome.called
         /\ ~outcome.err
         /\ \/ req.route = "/user/:id" /\ ~RowExists(usersTable, req.id)
            \/ req.route = "/tasks/:id" /\ ~RowExists(tasksTable, req.id) )
       => reply.status = 404

\* C7: validateBody(schema) answers a body that fails the schema with 400
\* 'Validation Error' and the joined 'path: message' of the issues, calls next
\* never, so that the handler does not run and no query is made; for a body
\* that passes it replaces req.body by the parsed value, calls next once and
\* sends nothing.  It never does both.
C7_ValidateBody ==
    trace.entered =>
        LET r == ZodParse(trace.schema, trace.given)
        IN IF r.success
           THEN /\ trace.body = r.data
                /\ trace.next = <<"next()">>
                /\ trace.handler = 1
                /\ trace.sent = <<>>
           ELSE /\ trace.sent = << Response(400, [error |-> "Validation Error",
                                                  message |-> JoinIssues(r.issues),
                                                  timestamp |-> Timestamp]) >>
                /\ reply = Head(trace.sent)
                /\ trace.next = <<>>
                /\ trace.handler = 0
                /\ trace.queries = 0
                /\ pending = <<>>

\* POST /user with three failed checks was answered 400 with the three issues
\* joined, and nothing is pending.
C7_Witness ==
    /\ variant = "express01"
    /\ trace.entered
    /\ trace.given = [name |-> "A", email |-> "ana-at-x", password |-> "123"]
    /\ reply.status = 400
    /\ reply.body.message =
         "name: Nome deve ter pelo menos 2 caracteres, email: Email deve ser valido, password: Senha deve ter pelo menos 6 caracteres"
    /\ pending = <<>>
    /\ usersTable = <<>>

\* C8: in fastify/03 a POST /usuarios whose body fails criarUsuarioSchema is
\* answered with HTTP 400.
C8_Fastify03CorpoInvalido400 ==
    ( /\ variant = "fastify03"
      /\ req # NoReq
      /\ ~ZodParse(criarUsuarioSchema, req.body).success )
    => reply.status = 400

\* C9: in the MySQL-backed variant an exception thrown inside a
\* connection.query callback reaches the global error middleware, is answered
\* with 500 and the generic body, and the process keeps serving.
C9_ExcecaoNoCallback500 ==
    ( /\ variant \in MySQL
      /\ outcome.called
      /\ outcome.thrown )
    => ( /\ reply = InternalServerError
         /\ process = "running" )

\* C10: in the MySQL-backed variant every route that queries the database
\* answers 500 whenever its query callback is called with an error.
C10_ErroDeConsulta500 ==
    ( /\ variant \in MySQL
      /\ outcome.called
      /\ outcome.err )
    => reply.status = 500

C12_SinalFechaServidor ==
    (process = "exited" /\ signal # "none") => server = "closed"

\* The stored user with the given id, and the fields a PUT may set.
Stored(arr, id) == arr[FindIndex(arr, id)]
Campos == IF variant = "src03" THEN {"name", "email"} ELSE {"nome", "email"}
Escritores == FastifyMem \cup {"src03"}

C14_UmaRespostaPorPedido ==
    (variant \in MySQL /\ outcome.called) => Len(outcome.calls) = 1

\* C15: in src/04 a PUT or DELETE of /usuarios/:id whose id is that of no user
\* of usuariosMock is answered 404 with the error body.
C15_StubIdDesconhecido404 ==
    ( /\ variant = "src04"
      /\ req.method \in {"PUT", "DELETE"}
      /\ FindIndex(usuariosMock, ParseInt(req.id)) = 0 )
    => (reply.status = 404 /\ "error" \in DOMAIN reply.body)

\* C16: PATCH /user and PATCH /tasks, when the handler runs: with no updatable
\* field in the body the answer is 400 'Pelo menos um campo deve ser fornecido
\* para atualização' and no query is issued; otherwise one UPDATE is issued
\* whose SET clause names exactly the body's fields, in declaration order,
\* followed by 'updated_at = NOW()', whose values are those fields' values in
\* the same order followed by the id, and whose '?' placeholders (one per
\* field and one in WHERE) are as many as its values.
C16_PatchDinamico ==
    (variant \in MySQL /\ req.method = "PATCH" /\ trace.handler > 0)
    => LET b == trace.body
           has(k) == k \in DOMAIN b
           set(k) == IF has(k) THEN k \o " = ?, " ELSE ""
           upd(k) == IF has(k) THEN << k \o " = ?" >> ELSE <<>>
           val(k) == IF has(k) THEN << b[k] >> ELSE <<>>
           user == req.route = "/user"
           fields == IF user THEN {"name", "email", "password"}
                     ELSE {"title", "description", "status", "id_user"}
           sql == IF user
                  THEN "UPDATE users SET " \o set("name") \o set("email") \o set("password")
                         \o "updated_at = NOW() WHERE id = ?"
                  ELSE "UPDATE tasks SET " \o set("title") \o set("description")
                         \o set("status") \o set("id_user")
                         \o "updated_at = NOW() WHERE id = ?"
           updates == (IF user THEN upd("name") \o upd("email") \o upd("password")
                       ELSE upd("title") \o upd("description") \o upd("status")
                              \o upd("id_user"))
                        \o << "updated_at = NOW()" >>
           values == (IF user THEN val("name") \o val("email") \o val("password")
                      ELSE val("title") \o val("description") \o val("status")
                             \o val("id_user"))
                       \o << b.id >>
       IN IF \A k \in fields : ~has(k)
          THEN /\ reply.status = 400
               /\ reply.body.message = "Pelo menos um campo deve ser fornecido para atualizacao"
               /\ trace.queries = 0
               /\ pending = <<>>
               /\ outcome = NoOutcome
          ELSE /\ trace.queries = 1
               /\ pending # <<>> =>
                    /\ Len(pending) = 1
                    /\ pending[1].sql = sql
                    /\ pending[1].updates = updates
                    /\ pending[1].values = values
                    /\ Cardinality({k \in fields : has(k)}) + 1 = Len(pending[1].values)

\* C16 witness: the UPDATE of a PATCH /user that gives all three fields is
\* pending, with four values for its four placeholders.
C16_Witness ==
    /\ variant = "express01"
    /\ req.method = "PATCH"
    /\ pending # <<>>
    /\ pending[1].sql
         = "UPDATE users SET name = ?, email = ?, password = ?, updated_at = NOW() WHERE id = ?"
    /\ pending[1].values = << "Rui", "ana@x.com", "secret1", 1 >>

\* C17: when the query of a PUT, PATCH or DELETE of /user or /tasks completes
\* without error, the answer is 404 with the fixed not-found message exactly
\* when affectedRows is 0, and then the tables are unchanged; when a row is
\* affected the answer is 200 with the success message and the id of the body.
C17_LinhasAfetadas ==
    [][ ( /\ variant \in MySQL
          /\ pending # <<>>
          /\ pending' = <<>>
          /\ req.method \in {"PUT", "PATCH", "DELETE"} )
        => LET out == Execute(pending[1])
               user == req.route = "/user"
               notFound == IF user THEN "Usuario nao encontrado" ELSE "Tarefa nao encontrada"
               done == IF req.method = "DELETE"
                       THEN (IF user THEN "Usuario deletado com sucesso"
                             ELSE "Tarefa deletada com sucesso")
                       ELSE (IF user THEN "Usuario atualizado com sucesso"
                             ELSE "Tarefa atualizada com sucesso")
           IN out.err
              \/ IF out.results.affectedRows = 0
                 THEN /\ reply' = Response(404, [message |-> notFound])
                      /\ usersTable' = usersTable
                      /\ tasksTable' = tasksTable
                 ELSE /\ reply' = Response(200, [message |-> done, id |-> req.body.id])
      ]_vars

\* C17 witness: a PUT /user for an id of no row was answered 404 while the
\* table holds a row.
C17_Witness ==
    /\ variant = "express01"
    /\ req.method = "PUT"
    /\ outcome.called
    /\ ~outcome.err
    /\ reply.status = 404
    /\ Len(usersTable) > 0

\* C18: when the UPDATE of a PUT /user whose body has no password completes
\* without error, the password of every row with the body's id is NULL; when
\* the UPDATE of a PATCH /user whose body has no password completes, every
\* row's password is what it was.
C18_SenhaPutPatch ==
    [][ ( /\ variant \in MySQL
          /\ pending # <<>>
          /\ pending' = <<>>
          /\ req.route = "/user"
          /\ req.method \in {"PUT", "PATCH"}
          /\ "password" \notin DOMAIN trace.body )
        => ( /\ Len(usersTable') = Len(usersTable)
             /\ \A i \in 1..Len(usersTable) :
                  IF req.method = "PUT" /\ ~Execute(pending[1]).err
                        /\ usersTable[i].id = req.body.id
                  THEN usersTable'[i].password = null
                  ELSE usersTable'[i].password = usersTable[i].password )
      ]_vars

\* C18 witness: a PUT /user without password was answered 200 and the row of
\* its id, inserted with a password, has password NULL.
C18_Witness ==
    /\ variant = "express01"
    /\ req.method = "PUT"
    /\ "password" \notin DOMAIN req.body
    /\ outcome.called
    /\ reply.status = 200
    /\ \E i \in 1..Len(usersTable) : /\ usersTable[i].id = req.body.id
                                     /\ usersTable[i].password = null

\* C19: the error handler of src/03 answers a ZodError with 400, message
\* 'Erro de validação.' and, in issues, the messages of the error's issues
\* under the key each one names; it answers every other error with 500 and
\* the generic message; it answers with no other status.
C19_ErrorHandler ==
    (variant = "src03" /\ "error" \in DOMAIN trace)
    => LET e == trace.error
       IN /\ reply.status \in {400, 500}
          /\ reply.body.statusCode = reply.status
          /\ IF e.name = "ZodError"
             THEN /\ reply.status = 400
                  /\ reply.body.error = "Bad Request"
                  /\ reply.body.message = "Erro de validacao."
                  /\ DOMAIN reply.body.issues = {e.issues[i].path : i \in 1..Len(e.issues)}
                  /\ \A k \in DOMAIN reply.body.issues :
                       LET at == SelectSeq(e.issues, LAMBDA x : x.path = k)
                       IN /\ Len(reply.body.issues[k]) = Len(at)
                          /\ \A i \in 1..Len(at) : reply.body.issues[k][i] = at[i].message
             ELSE /\ reply.status = 500
                  /\ reply.body = [statusCode |-> 500, error |-> "Internal Server Error",
                                   message |-> "Ocorreu um erro inesperado no servidor."]

\* C19 witness: the handler answered the ZodError of a body with a short name
\* and a malformed e-mail.
C19_Witness ==
    /\ variant = "src03"
    /\ "error" \in DOMAIN trace
    /\ reply.status = 400
    /\ reply.body.issues = [name |-> << "O nome precisa ter no minimo 3 caracteres." >>,
                            email |-> << "Formato de e-mail invalido." >>]

\* C20: in src/03 and fastify/03 a process that exited after SIGTERM or SIGINT
\* exited with app.close() settled, with exit code 0 when close resolved and 1
\* when it rejected; the signal alone never ends the process.
C20_SaidaAposClose ==
    /\ (variant \in FastifyShutdown /\ process = "exited" /\ signal # "none")
         => /\ server \in {"closed", "close failed"}
            /\ server = "closed" => exitCode = <<0>>
            /\ server = "close failed" => exitCode = <<1>>
    /\ (variant \in FastifyShutdown /\ server = "closing") => process = "running"

\* C20 witness: src/03 exited with code 1 after SIGINT and a close that failed.
C20_Witness ==
    /\ variant = "src03"
    /\ signal = "SIGINT"
    /\ server = "close failed"
    /\ process = "exited"
    /\ exitCode = <<1>>

\* C21: every request to the /health route of routes() eventually receives
\* 200 with status 'ok', timestamp, uptime, environment and version.
C21_HealthRespondido ==
    (variant = "routes03" /\ req.method = "GET" /\ req.route = "/health")
        ~> ( /\ reply.status = 200
             /\ DOMAIN reply.body = {"status", "timestamp", "uptime", "environment", "version"}
             /\ reply.body.status = "ok" )

\* C22: in unnamed/part_001 start() reaches the listening state, with every
\* plugin registered before the instance became ready.
C22_StartEscuta ==
    (variant = "part001") ~> (server = "listening" /\ process = "running")

\* C23: in fastify/04 and fastify/05 the ids of the users of the array are
\* pairwise distinct in every reachable state, and the user a POST adds has
\* an id greater than that of every user the array held when the POST ran.
C23_IdsDistintosECrescentes ==
    /\ [](variant \in FastifyMem
            => Cardinality({usuariosMock[i].id : i \in 1..Len(usuariosMock)})
                 = Len(usuariosMock))
    /\ [][ (variant \in FastifyMem /\ Len(usuariosMock') > Len(usuariosMock))
           => ( /\ Len(usuariosMock') = Len(usuariosMock) + 1
                /\ reply'.status = 201
                /\ reply'.body = usuariosMock'[Len(usuariosMock')]
                /\ \A i \in 1..Len(usuariosMock) :
                     usuariosMock'[Len(usuariosMock')].id > usuariosMock[i].id )
        ]_vars

\* C23 witness: a POST created a user while the array, after a DELETE, held
\* fewer users than the seed.
C23_Witness ==
    /\ variant = "fastify05"
    /\ req.method = "POST"
    /\ reply.status = 201
    /\ Len(usuariosMock) = Len(usuariosMockSeed)
    /\ usuariosMock[Len(usuariosMock)].id = 11

\* The id a successful POST gives: 1 for the empty array, otherwise the
\* maximum id of the array plus 1.
PostDaProximoId ==
    (variant \in FastifyMem /\ Len(usuariosMock') > Len(usuariosMock))
    => IF Len(usuariosMock) = 0 THEN reply'.body.id = 1
       ELSE /\ \E i \in 1..Len(usuariosMock) : usuariosMock[i].id + 1 = reply'.body.id
            /\ \A i \in 1..Len(usuariosMock) : usuariosMock[i].id < reply'.body.id

\* A POST that creates a user right after a DELETE removed the user with the
\* highest id.
PostAposDeleteDoMaior ==
    /\ variant \in FastifyMem
    /\ req.method = "DELETE"
    /\ reply.status = 200
    /\ \A i \in 1..Len(usuariosMock) : usuariosMock[i].id < ParseInt(req.id)
    /\ Len(usuariosMock') > Len(usuariosMock)

\* C24 (as claimed): getNextId gives 1 for the empty array and the maximum id
\* plus 1 otherwise, and a POST right after the DELETE of the user with the
\* highest id gives the new user the id of the deleted one.
C24_IdDoExcluido ==
    [][ /\ PostDaProximoId
        /\ PostAposDeleteDoMaior => reply'.body.id = ParseInt(req.id) ]_vars

\* C24 (amended): getNextId gives 1 for the empty array and the maximum id
\* plus 1 otherwise; a POST right after the DELETE of the user with the
\* highest id gives the new user an id no greater than the deleted one, and
\* the deleted id itself exactly when the array still holds the id just
\* below it (or is empty and the deleted id was 1).
C24_IdReatribuido ==
    [][ /\ PostDaProximoId
        /\ PostAposDeleteDoMaior
             => /\ reply'.body.id <= ParseInt(req.id)
                /\ reply'.body.id = ParseInt(req.id)
                     <=> IF Len(usuariosMock) = 0 THEN ParseInt(req.id) = 1
                         ELSE \E i \in 1..Len(usuariosMock) :
                                usuariosMock[i].id + 1 = ParseInt(req.id) ]_vars

\* C24 witness: a POST created user 1 in the empty array.
C24_Witness ==
    /\ variant = "fastify05"
    /\ req.method = "POST"
    /\ reply.status = 201
    /\ reply.body.id = 1
    /\ Len(usuariosMock) = 1

\* C25: in fastify/04, fastify/05 and src/03 a PUT answered 200 leaves the
\* array with the same length and order, every user other than the one of its
\* id as it was, and in that user the id, createdAt and every field absent
\* from the body as they were; a PUT answered 404 or 400 leaves the array as
\* it was.
C25_PutSoOsCamposDoCorpo ==
    [][ (variant \in Escritores /\ req'.method = "PUT")
        => ( /\ reply'.status \in {200, 400, 404}
             /\ reply'.status \in {400, 404} => Arr' = Arr
             /\ reply'.status = 200 =>
                  /\ Len(Arr') = Len(Arr)
                  /\ \A i \in 1..Len(Arr) :
                       /\ DOMAIN Arr'[i] = DOMAIN Arr[i]
                       /\ Arr'[i].id = Arr[i].id
                       /\ IF Arr[i].id = IdPedido(req')
                          THEN \A k \in DOMAIN Arr[i] \ DOMAIN req'.body :
                                 Arr'[i][k] = Arr[i][k]
                          ELSE Arr'[i] = Arr[i] )
      ]_vars

\* C25 witness: with two users in the array of src/03, a PUT that gives only
\* the name was answered 200.
C25_Witness ==
    /\ variant = "src03"
    /\ req.method = "PUT"
    /\ reply.status = 200
    /\ DOMAIN req.body = {"name"}
    /\ Len(users) = 2
    /\ \E i \in 1..2 : users[i].id = req.id /\ users[i].name = req.body.name

\* C26: in fastify/04, fastify/05 and src/03 a DELETE for the id of a user of
\* the array succeeds and removes that user alone, the others keeping their
\* order; a DELETE for any other id is answered 404 and leaves the array as it
\* was; so a DELETE of the id of the DELETE that just succeeded is answered 404.
C26_DeleteSoOUsuario ==
    [][ ( /\ variant \in Escritores
          /\ req'.method = "DELETE"
          /\ UNCHANGED <<server, signal, process>> )
        => LET j == FindIndex(Arr, IdPedido(req'))
           IN /\ IF j = 0
                 THEN reply'.status = 404 /\ Arr' = Arr
                 ELSE /\ reply'.status \in {200, 204}
                      /\ Len(Arr') = Len(Arr) - 1
                      /\ \A i \in 1..Len(Arr') :
                           Arr'[i] = IF i < j THEN Arr[i] ELSE Arr[i + 1]
                      /\ \A i \in 1..Len(Arr') : Arr'[i].id # IdPedido(req')
              /\ ( /\ req.method = "DELETE"
                   /\ reply.status \in {200, 204}
                   /\ req.id = req'.id )
                 => reply'.status = 404
      ]_vars

\* C26 witness: a DELETE of the first of the two users of src/03 was answered
\* 204 and the second user remains.
C26_Witness ==
    /\ variant = "src03"
    /\ req.method = "DELETE"
    /\ reply.status = 204
    /\ req.id = <<"uuid", 1>>
    /\ Len(users) = 1
    /\ users[1].id = <<"uuid", 2>>

\* C27: in the in-memory servers that write (fastify/05, src/03) the POST
\* handlers run one at a time: once two POST requests that were in flight
\* together and carried the same email, which no user had when they arrived,
\* have both been answered, whichever was handled first, exactly one was
\* answered 201, the other was rejected with 400 or 409, and the array is the
\* one they found plus the one user that 201 returned.
C27_PostsConcorrentes ==
    ( /\ variant \in Concorrentes
      /\ "respostas" \in DOMAIN outcome
      /\ Len(outcome.respostas) = 2
      /\ outcome.posts[1].email = outcome.posts[2].email
      /\ \A i \in 1..Len(outcome.antes) : outcome.antes[i].email # outcome.posts[1].email )
    => LET r == outcome.respostas
           criados == {k \in 1..2 : r[k].reply.status = 201}
       IN /\ Cardinality(criados) = 1
          /\ \A k \in (1..2) \ criados : r[k].reply.status \in {400, 409}
          /\ \A k \in criados : Arr = Append(outcome.antes, r[k].reply.body)
          /\ Len(Arr) = Len(outcome.antes) + 1

\* Both requests answered, the one received second handled first.
C27_Witness ==
    /\ variant = "src03"
    /\ "respostas" \in DOMAIN outcome
    /\ Len(outcome.respostas) = 2
    /\ outcome.antes = <<>>
    /\ outcome.posts[1] # outcome.posts[2]
    /\ outcome.posts[1].email = outcome.posts[2].email
    /\ outcome.respostas[1].body = outcome.posts[2]
    /\ outcome.respostas[1].reply.status = 201
    /\ outcome.respostas[2].reply.status = 409
    /\ Len(users) = 1

=============================================================================
